---- MODULE Spec2Model ----
(***************************************************************************)
(* Model of @interpriz/lib: the FetchClient request pipeline               *)
(* (src/src/services/http.ts), the ExtendedFetchClient documented in       *)
(* src/src/services/http.md, and the helpers of src/src/utils.ts they use. *)
(*                                                                         *)
(* JavaScript values are tagged records, so that values of different       *)
(* JavaScript types can be compared.  An object is a sequence of entries   *)
(* [k, v] in insertion order.                                              *)
(***************************************************************************)
EXTENDS Integers, Sequences, FiniteSets, TLC

VARIABLES
  client,      \* the constructed client: [klass, config], or NoClient
  pc,          \* where the current call of request is suspended
  endpoint,    \* request's parameter `endpoint`
  opts,        \* request's local `opts` (a shallow copy of the options)
  headers,     \* request's local Headers object
  token,       \* what the token supplier resolved with in this attempt
  inflight,    \* the request handed to fetch and not yet answered
  response,    \* the Response fetch resolved with
  parsed,      \* the body parseResponse resolved with
  cause,       \* the error last passed to handleError
  outcome,     \* how the promise returned by request settled
  fetchCalls,  \* calls of fetch since the caller called request
  tokenCalls,  \* calls of the token supplier in the current attempt
  loginRedirects, \* whether redirectToLogin ran (ExtendedFetchClient)
  services,    \* the ESService objects constructed so far, in order
  instances,   \* ESService.instances: index name -> position in services
  baseMust,    \* a filter list a caller of productQueryBuilder holds
  esPc,        \* where the current ESService operation is suspended
  esCall,      \* the ESService operation in progress, and the last search before it
  esResult,    \* how the last ESService operation ended
  uiPc,        \* where the current handleShare / handleCopy call stands
  uiCall,      \* its arguments and the execution context it runs in
  uiLog,       \* what it has done: callbacks run, texts written, fallbacks
  appended     \* the pairs objToQs appended to its URLSearchParams, in order

fetchVars == <<client, pc, endpoint, opts, headers, token, inflight, response,
               parsed, cause, outcome, fetchCalls, tokenCalls, loginRedirects>>
esVars == <<services, instances, baseMust, esPc, esCall, esResult>>
uiVars == <<uiPc, uiCall, uiLog>>

vars == <<fetchVars, esVars, uiVars, appended>>

-----------------------------------------------------------------------------
(* Bounds *)

\* fetch calls the model follows within one caller-level request
MaxFetch == 3
\* longest array in a response body
MaxArrLen == 2

-----------------------------------------------------------------------------
(* JavaScript values *)

Undefined == [t |-> "undefined"]
Null == [t |-> "null"]
Str(s) == [t |-> "str", s |-> s]
Num(n) == [t |-> "num", n |-> n]
BigIntValue == [t |-> "bigint"]
Obj(e) == [t |-> "obj", e |-> e]
Arr(q) == [t |-> "arr", q |-> q]
FormDataValue == [t |-> "formdata"]
Bool(b) == [t |-> "bool", b |-> b]
NaN == [t |-> "nan"]
Entry(k, v) == [k |-> k, v |-> v]

None == [t |-> "none"]

Range(q) == {q[i] : i \in 1..Len(q)}

Keys(o) == {o.e[i].k : i \in 1..Len(o.e)}

\* o[k], and undefined for a missing key or a value without properties
\* (optional chaining makes null and undefined answer undefined as well)
Prop(v, k) ==
  IF v.t = "obj" /\ k \in Keys(v)
  THEN LET i == CHOOSE j \in 1..Len(v.e) : v.e[j].k = k IN v.e[i].v
  ELSE Undefined

Truthy(v) ==
  CASE v.t \in {"undefined", "null"} -> FALSE
    [] v.t = "str" -> v.s # ""
    [] v.t = "num" -> v.n # 0
    [] v.t = "bool" -> v.b
    [] v.t = "nan" -> FALSE
    [] OTHER -> TRUE

\* a ?? b
Coalesce(a, b) == IF a.t \in {"undefined", "null"} THEN b ELSE a

\* a || b
OrElse(a, b) == IF Truthy(a) THEN a ELSE b

\* String(v)
StringOf(v) ==
  CASE v.t = "str" -> v.s
    [] v.t = "num" -> ToString(v.n)
    [] v.t = "null" -> "null"
    [] v.t = "undefined" -> "undefined"
    [] v.t = "bool" -> IF v.b THEN "true" ELSE "false"
    [] v.t = "nan" -> "NaN"
    [] v.t = "formdata" -> "[object FormData]"
    [] OTHER -> "[object Object]"

\* export const isObject
isObject(value) ==
  /\ value.t \in {"obj", "arr", "null", "formdata"}   \* typeof value === 'object'
  /\ value.t # "null"
  /\ value.t # "arr"
  /\ value.t # "formdata"

RECURSIVE JoinWith(_, _)
JoinWith(q, sep) ==
  IF q = <<>> THEN ""
  ELSE IF Len(q) = 1 THEN q[1]
  ELSE q[1] \o sep \o JoinWith(Tail(q), sep)

\* JSON.stringify: [ok |-> TRUE, text |-> the serialization], [ok |-> FALSE]
\* when it throws (a BigInt), or Undefined when there is nothing to serialize.
\* Entries whose value is undefined are left out.
RECURSIVE JSONstringify(_)
JSONstringify(v) ==
  CASE v.t = "str" -> [ok |-> TRUE, text |-> "\"" \o v.s \o "\""]
    [] v.t = "num" -> [ok |-> TRUE, text |-> ToString(v.n)]
    [] v.t = "null" -> [ok |-> TRUE, text |-> "null"]
    [] v.t = "bigint" -> [ok |-> FALSE]
    [] v.t = "arr" ->
         LET parts == [i \in 1..Len(v.q) |->
                         IF v.q[i].t = "undefined" THEN [ok |-> TRUE, text |-> "null"]
                         ELSE JSONstringify(v.q[i])]
         IN IF \E i \in 1..Len(parts) : ~parts[i].ok THEN [ok |-> FALSE]
            ELSE [ok |-> TRUE,
                  text |-> "[" \o JoinWith([i \in 1..Len(parts) |-> parts[i].text], ",") \o "]"]
    [] v.t = "obj" ->
         LET kept == SelectSeq(v.e, LAMBDA en : en.v.t # "undefined")
             parts == [i \in 1..Len(kept) |-> JSONstringify(kept[i].v)]
         IN IF \E i \in 1..Len(parts) : ~parts[i].ok THEN [ok |-> FALSE]
            ELSE [ok |-> TRUE,
                  text |-> "{" \o JoinWith([i \in 1..Len(kept) |->
                                 "\"" \o kept[i].k \o "\":" \o parts[i].text], ",") \o "}"]
    [] OTHER -> [ok |-> TRUE, text |-> "{}"]

-----------------------------------------------------------------------------
(* Records with optional keys (options, configuration, envelopes) are       *)
(* functions on the keys they hold; the platform's Headers object is a      *)
(* function from lower-case header names to values.                         *)

EmptyMap == [x \in {} |-> ""]

SpreadLeftWins(a, b) ==
  [x \in DOMAIN a \cup DOMAIN b |-> IF x \in DOMAIN a THEN a[x] ELSE b[x]]

\* {...a, ...b}
Spread(a, b) ==
  [x \in DOMAIN a \cup DOMAIN b |-> IF x \in DOMAIN b THEN b[x] ELSE a[x]]

\* Headers treats names case-insensitively
LowerCase(name) ==
  CASE name = "Authorization" -> "authorization"
    [] name = "Content-Type" -> "content-type"
    [] name = "Location" -> "location"
    [] OTHER -> name

\* new Headers(init)
NewHeaders(init) ==
  [n \in {LowerCase(x) : x \in DOMAIN init} |->
     LET x == CHOOSE y \in DOMAIN init : LowerCase(y) = n IN init[x]]

HeadersHas(h, name) == LowerCase(name) \in DOMAIN h

HeadersSet(h, name, value) ==
  [n \in DOMAIN h \cup {LowerCase(name)} |->
     IF n = LowerCase(name) THEN value ELSE h[n]]

HeadersDeleteNothing(h, name) == h

\* headers.delete(name)
HeadersDelete(h, name) == [n \in DOMAIN h \ {LowerCase(name)} |-> h[n]]

\* headers.get(name): null when absent
HeadersGet(h, name) ==
  IF HeadersHas(h, name) THEN Str(h[LowerCase(name)]) ELSE Null

-----------------------------------------------------------------------------
(* src/src/utils.ts *)

clearObjKeepingAll(obj) == obj

\* export function clearObj: the entries with a truthy value, in order
clearObj(obj) == Obj(SelectSeq(obj.e, LAMBDA en : Truthy(en.v)))

\* URLSearchParams' serialization of one name or value
UrlEncode(s) ==
  CASE s = "[object Object]" -> "%5Bobject+Object%5D"
    [] s = "a b" -> "a+b"
    [] OTHER -> s

\* the key=value pairs objToQs appends for one entry
QsPairs(en) ==
  IF en.v.t = "arr"
  THEN LET items == SelectSeq(en.v.q, LAMBDA it : it.t \notin {"null", "undefined"})
       IN [i \in 1..Len(items) |->
             UrlEncode(en.k) \o "=" \o UrlEncode(StringOf(items[i]))]
  ELSE IF en.v.t \notin {"null", "undefined"}
  THEN <<UrlEncode(en.k) \o "=" \o UrlEncode(StringOf(en.v))>>
  ELSE <<>>

RECURSIVE Flatten(_)
Flatten(qq) == IF qq = <<>> THEN <<>> ELSE Head(qq) \o Flatten(Tail(qq))

\* the pairs objToQs has appended to its URLSearchParams when forEach ends
Appended(params) == Flatten([i \in 1..Len(params.e) |-> QsPairs(params.e[i])])

\* export function objToQs
objToQs(params) == JoinWith(Appended(params), "&")

-----------------------------------------------------------------------------
(* src/src/services/http.ts: FetchClient's synchronous helpers *)

StartsWithSlashNever(ep) == FALSE

\* endpoint.startsWith('/'); an endpoint is a sequence of characters
StartsWithSlash(ep) == Len(ep) > 0 /\ ep[1] = "/"

EndpointText(ep) == JoinWith(ep, "")

filterReturnColumnsUnchecked(data, returnColumns) ==
  IF data.t = "obj"
  THEN Obj(SelectSeq(data.e, LAMBDA en : en.k \in Range(returnColumns)))
  ELSE data

\* private filterReturnColumns
filterReturnColumns(data, returnColumns) ==
  IF isObject(data)
  THEN LET returnColExists == \A i \in 1..Len(returnColumns) :
                                 returnColumns[i] \in Keys(data)
       IN IF returnColExists
          THEN Obj(SelectSeq(data.e, LAMBDA en : en.k \in Range(returnColumns)))
          ELSE data
  ELSE data

\* the body request returns on success (lines 97-117)
ShapeBody(body, returnColumns) ==
  IF Len(returnColumns) > 0
  THEN IF isObject(body)
       THEN Obj([i \in 1..Len(body.e) |->
                   Entry(body.e[i].k,
                         IF body.e[i].v.t = "arr"
                         THEN Arr([j \in 1..Len(body.e[i].v.q) |->
                                     filterReturnColumns(body.e[i].v.q[j], returnColumns)])
                         ELSE filterReturnColumns(body.e[i].v, returnColumns))])
       ELSE IF body.t = "arr"
       THEN Arr([j \in 1..Len(body.q) |-> filterReturnColumns(body.q[j], returnColumns)])
       ELSE body
  ELSE body

\* opts.searchParams?.return_columns, as the list of names (empty when absent)
ReturnColumnsOf(o) ==
  IF "searchParams" \in DOMAIN o
  THEN LET rc == Prop(o.searchParams, "return_columns")
       IN IF rc.t = "arr" THEN [i \in 1..Len(rc.q) |-> rc.q[i].s] ELSE <<>>
  ELSE <<>>

\* new Error(message): an Error object is an object with a message
NewError(message) ==
  Obj(<<Entry("message", Str(IF message.t = "undefined" THEN "" ELSE StringOf(message)))>>)

createErrorMessageFirst(body) ==
  NewError(OrElse(Prop(body, "message"), Prop(body, "error")))

\* protected createError
createError(body) == NewError(OrElse(Prop(body, "error"), Prop(body, "message")))

errStringMessageFirst(error) ==
  Coalesce(Prop(error, "message"), Coalesce(Prop(error, "error"), Str(StringOf(error))))

\* the message handleError extracts (line 212)
errString(error) ==
  Coalesce(Prop(error, "error"), Coalesce(Prop(error, "message"), Str(StringOf(error))))

RejectionWithBody(error) ==
  [settled |-> "rejected",
   value |-> [body |-> Obj(<<>>), error |-> errString(error)]]

\* the value handleError rejects with (lines 214-217)
Rejection(error) ==
  [settled |-> "rejected",
   value |-> [body |-> Null, error |-> errString(error)]]

Resolved(value) == [settled |-> "resolved", value |-> value]

BodyOf(o) == IF "body" \in DOMAIN o THEN o.body ELSE Undefined

\* private prepareRequest, given the Headers it mutates: [ok |-> FALSE] when
\* JSON.stringify throws, else the url, the fetch options and the Headers
prepareRequest(config, ep, options, h) ==
  LET url0 == config.baseUrl \o
                (IF StartsWithSlash(ep) THEN EndpointText(ep) ELSE "/" \o EndpointText(ep))
      isBodyObject == isObject(BodyOf(options))
      h2 == IF ~isBodyObject THEN HeadersDelete(h, "Content-Type")
            ELSE IF ~HeadersHas(h, "Content-Type")
            THEN HeadersSet(h, "Content-Type", "application/json")
            ELSE h
      json == IF isBodyObject THEN JSONstringify(BodyOf(options)) ELSE [ok |-> TRUE]
      fetchOptions ==
        Spread(options,
               [headers |-> h2,
                credentials |-> "include",
                mode |-> "cors",
                redirect |-> IF "redirect" \in DOMAIN options THEN options.redirect
                             ELSE "follow",
                referrerPolicy |-> "no-referrer",
                body |-> IF isBodyObject THEN Str(json.text) ELSE BodyOf(options)])
      url == IF "searchParams" \in DOMAIN options
             THEN url0 \o "?" \o objToQs(clearObj(options.searchParams))
             ELSE url0
  IN IF json.ok
     THEN [ok |-> TRUE, url |-> url, fetchOptions |-> fetchOptions, headers |-> h2]
     ELSE [ok |-> FALSE, headers |-> h2]

\* private parseResponse: which reader of the body it awaits
WantsJson(resp) ==
  LET contentType == HeadersGet(resp.headers, "content-type")
  IN contentType.t = "str" /\
     contentType.s \in {"application/json", "application/json; charset=utf-8"}

\* the redirect test and envelope of request (lines 85-91)
isRedirect(resp) ==
  resp.type = "opaqueredirect" \/ (resp.status >= 300 /\ resp.status < 400)

RedirectEnvelope(resp) ==
  LET location == OrElse(HeadersGet(resp.headers, "location"),
                         OrElse(Str(resp.url), Str("")))
  IN [body |-> Obj(<<>>), error |-> Null,
      redirect |-> [url |-> location.s, status |-> resp.status]]

-----------------------------------------------------------------------------
(* src/src/services/http.md: the documented ExtendedFetchClient *)

\* ExtendedFetchClient.createError: the message defaults, the status is attached
createErrorExtended(body, resp) ==
  LET message == IF Truthy(Prop(body, "error")) THEN Prop(body, "error")
                 ELSE IF Truthy(Prop(body, "message")) THEN Prop(body, "message")
                 ELSE Str("Unexpected error occurred")
  IN Obj(NewError(message).e \o <<Entry("status", Num(resp.status))>>)

\* error?.message?.toLowerCase?.() || '' includes one of the two markers
MessageSaysUnauthorized(message) ==
  message.t = "str" /\
  message.s \in {"Unauthorized", "unauthorized", "Invalid token", "invalid token"}

\* isUnauthorized of ExtendedFetchClient.handleError
isUnauthorized(error) ==
  \/ Prop(error, "status") = Num(401)
  \/ MessageSaysUnauthorized(Prop(error, "message"))

-----------------------------------------------------------------------------
(* The inputs the model draws from *)

BaseUrl == "https://api.example.com"

NoClient == [klass |-> "none"]

Klasses == {"FetchClient", "ExtendedFetchClient"}

HeaderInits ==
  { EmptyMap,
    "Authorization" :> "Basic dXNlcg==",
    "Content-Type" :> "text/plain",
    "Authorization" :> "Basic dXNlcg==" @@ "Content-Type" :> "text/plain" }

DefaultHeaderInits ==
  { "Content-Type" :> "text/plain",
    "Authorization" :> "Basic dXNlcg==" @@ "Content-Type" :> "text/plain" }

\* FetchClientConfig values handed to the constructor
ConfigInputs ==
  LET urls == { EmptyMap, "baseUrl" :> "", "baseUrl" :> BaseUrl }
      defaults == { EmptyMap } \cup { "defaultHeaders" :> h : h \in DefaultHeaderInits }
      suppliers == { EmptyMap, "getAuthToken" :> "supplier" }
  IN { Spread(Spread(u, d), g) : u \in urls, d \in defaults, g \in suppliers }

Endpoints == { <<"/", "users">>, <<"users">> }

Full == Obj(<<Entry("id", Str("v")), Entry("name", Str("v")), Entry("extra", Str("v"))>>)
Partial == Obj(<<Entry("id", Str("v")), Entry("extra", Str("v"))>>)
Deep == Obj(<<Entry("id", Str("v")), Entry("name", Full), Entry("extra", Str("v"))>>)

RequestBodies ==
  { Obj(<<Entry("name", Str("Alice")), Entry("role", Undefined)>>),
    Obj(<<Entry("count", BigIntValue)>>),
    FormDataValue }

SearchParamInputs ==
  { Obj(<<>>),
    Obj(<<Entry("page", Num(1)), Entry("return_columns", Arr(<<>>))>>),
    Obj(<<Entry("return_columns", Arr(<<Str("id")>>))>>),
    Obj(<<Entry("return_columns", Arr(<<Str("id"), Str("name")>>))>>) }

TransportOverrides ==
  { EmptyMap,
    "credentials" :> "omit" @@ "mode" :> "same-origin" @@ "referrerPolicy" :> "origin" }

RedirectModes == {"follow", "manual", "error"}

\* FetchOptions values: each call varies one group of fields
OptionInputs ==
  LET hs == { EmptyMap } \cup { "headers" :> h : h \in HeaderInits }
      bs == { EmptyMap } \cup { "body" :> b : b \in RequestBodies }
      rs == { EmptyMap } \cup { "redirect" :> r : r \in RedirectModes }
      ss == { "searchParams" :> p : p \in SearchParamInputs }
  IN { Spread(h, b) : h \in hs, b \in bs }
       \cup { Spread(r, t) : r \in rs, t \in TransportOverrides }
       \cup ss

\* what the token supplier resolves with, and what it rejects with
TokenValues == { Str("tok1"), Str(""), Null }

ThrownValues ==
  { NewError(Str("storage unavailable")),
    Obj(<<Entry("error", Str("denied")), Entry("message", Str("token refused"))>>),
    Str("oops") }

RECURSIVE SeqsUpTo(_, _)
SeqsUpTo(S, n) ==
  IF n = 0 THEN { <<>> }
  ELSE LET shorter == SeqsUpTo(S, n - 1)
       IN shorter \cup { Append(q, x) : q \in shorter, x \in S }

ArrayBodies == { Arr(q) : q \in SeqsUpTo({Full, Partial, Str("v")}, MaxArrLen) }

DataBodies ==
  { Full, Partial, Deep, Null, Str("v"), Arr(<<Deep>>) }
    \cup ArrayBodies
    \cup { Obj(<<Entry("data", d), Entry("total", Num(2))>>) :
             d \in {Full, Partial, Deep} \cup ArrayBodies }

ErrorMarked ==
  Obj(<<Entry("status", Str("error")), Entry("error", Str("E1")),
        Entry("message", Str("M1"))>>)

ErrorBodies ==
  { ErrorMarked,
    Obj(<<Entry("status", Str("error")), Entry("error", Str("")),
          Entry("message", Str("M1"))>>),
    Obj(<<Entry("status", Str("error"))>>),
    Obj(<<Entry("status", Str("ok")), Entry("message", Str("Unauthorized"))>>) }

Malformed == [kind |-> "malformed"]
Json(v) == [kind |-> "json", v |-> v]

JsonType == "Content-Type" :> "application/json; charset=utf-8"
TextType == "Content-Type" :> "text/plain"

Response(type, status, hdrs, url, wire) ==
  [type |-> type, status |-> status, ok |-> (status >= 200 /\ status < 300),
   headers |-> NewHeaders(hdrs), url |-> url, wire |-> wire]

\* the responses fetch can resolve with for a request (url, redirect mode)
Responses(url, mode) ==
  \* an answered request, JSON content
  { Response("basic", 200, JsonType, url, Json(v)) : v \in DataBodies \cup ErrorBodies }
  \cup { Response("basic", st, JsonType, url, Json(v)) :
           st \in {401, 500}, v \in ErrorBodies \cup {Full, Null} }
  \cup { Response("basic", st, JsonType, url, Malformed) : st \in {200, 500} }
  \* an answered request, other content or none declared
  \cup { Response("basic", st, h, url, w) :
           st \in {200, 401}, h \in {TextType, EmptyMap},
           w \in {Malformed, Json(ErrorMarked)} }
  \* 304 Not Modified, and a 3xx without Location: never followed
  \cup { Response("basic", 304, EmptyMap, url, Json(Str(""))) }
  \* redirect: 'manual' in a browser
  \cup ( IF mode = "manual"
         THEN { Response("opaqueredirect", 0, EmptyMap, u, Json(Str(""))) : u \in {url, ""} }
         ELSE {} )
  \* redirect: 'manual' where the runtime exposes the redirect response
  \cup ( IF mode = "manual"
         THEN { Response("basic", 302, Spread(JsonType, "Location" :> "/login"), url, w) :
                  w \in {Malformed, Json(ErrorMarked)} }
         ELSE {} )

-----------------------------------------------------------------------------
(* State *)

Init ==
  /\ client = NoClient
  /\ pc = "new"
  /\ endpoint = None
  /\ opts = None
  /\ headers = None
  /\ token = None
  /\ inflight = None
  /\ response = None
  /\ parsed = None
  /\ cause = None
  /\ outcome = None
  /\ fetchCalls = 0
  /\ tokenCalls = 0
  /\ loginRedirects = 0
  /\ services = <<>>
  /\ instances = EmptyMap
  /\ baseMust = <<>>
  /\ esPc = "idle"
  /\ esCall = None
  /\ esResult = None
  /\ uiPc = "idle"
  /\ uiCall = None
  /\ uiLog = <<>>
  /\ appended = <<>>

callVars == <<endpoint, opts, headers, token, inflight, response, parsed, cause,
              outcome, fetchCalls, tokenCalls, loginRedirects>>

ConstructUnchecked(klass, config) ==
  /\ pc = "new"
  /\ pc' = "idle"
  /\ client' = [klass |-> klass, config |-> Spread(EmptyMap, config)]
  /\ UNCHANGED <<callVars, esVars, uiVars, appended>>

\* constructor (and the subclass's inherited one): throws without a base URL
Construct(klass, config) ==
  /\ pc = "new"
  /\ IF "baseUrl" \notin DOMAIN config \/ config.baseUrl = ""
     THEN /\ pc' = "threw"
          /\ client' = NoClient
     ELSE /\ pc' = "idle"
          /\ client' = [klass |-> klass, config |-> Spread(EmptyMap, config)]
  /\ UNCHANGED <<callVars, esVars, uiVars, appended>>

\* FetchClient.handleError: log, then reject with {body: null, error}
BaseHandleError(error) ==
  /\ cause' = error
  /\ outcome' = Rejection(error)
  /\ pc' = "done"
  /\ UNCHANGED loginRedirects

HandleErrorRetrying(error) ==
  IF isUnauthorized(error)
  THEN /\ cause' = error
       /\ pc' = "awaitRefresh"
       /\ UNCHANGED <<outcome, loginRedirects>>
  ELSE BaseHandleError(error)

\* this.handleError(error, endpoint, opts) of the catch clause, up to its
\* first suspension: the override awaits handleAuthFailure on an unauthorized error
HandleError(error) ==
  IF client.klass = "ExtendedFetchClient" /\ isUnauthorized(error)
  THEN /\ cause' = error
       /\ pc' = "awaitRefresh"
       /\ UNCHANGED <<outcome, loginRedirects>>
  ELSE BaseHandleError(error)

\* prepareRequest and the call of fetch (lines 77-82)
IssueFetch(ep, o, h) ==
  LET prep == prepareRequest(client.config, ep, o, h)
  IN /\ headers' = prep.headers
     /\ IF prep.ok
        THEN /\ inflight' = [url |-> prep.url, fetchOptions |-> prep.fetchOptions]
             /\ fetchCalls' = fetchCalls + 1
             /\ pc' = "awaitFetch"
             /\ UNCHANGED <<cause, outcome, loginRedirects>>
        ELSE /\ HandleError(NewError(Str("Do not know how to serialize a BigInt")))
             /\ UNCHANGED <<inflight, fetchCalls>>

\* request, from its entry to its first suspension (lines 65-82)
StartRequest(ep, options) ==
  LET o == Spread(EmptyMap, options)
      h == NewHeaders(IF "headers" \in DOMAIN o THEN o.headers
                      ELSE IF "defaultHeaders" \in DOMAIN client.config
                      THEN client.config.defaultHeaders
                      ELSE EmptyMap)
  IN /\ endpoint' = ep
     /\ opts' = o
     /\ token' = None
     /\ response' = None
     /\ parsed' = None
     /\ IF ~HeadersHas(h, "Authorization") /\ "getAuthToken" \in DOMAIN client.config
        THEN /\ headers' = h
             /\ tokenCalls' = 1
             /\ pc' = "awaitToken"
             /\ inflight' = None
             /\ UNCHANGED <<cause, outcome, fetchCalls, loginRedirects>>
        ELSE /\ tokenCalls' = 0
             /\ IssueFetch(ep, o, h)

\* a caller calls request(endpoint, options)
Request(ep, options) ==
  /\ pc = "idle"
  /\ fetchCalls = 0
  /\ StartRequest(ep, options)
  /\ UNCHANGED <<client, esVars, uiVars, appended>>

\* the options the convenience wrappers hand to request
WrapperOptionInputs ==
  { EmptyMap, "headers" :> ("Authorization" :> "Basic dXNlcg==") }

WrapperBodies ==
  { Obj(<<Entry("name", Str("Alice")), Entry("role", Undefined)>>), FormDataValue }

\* public async get
Get(ep, options) == Request(ep, Spread(options, "method" :> "GET"))

\* public async post
Post(ep, body, options) ==
  Request(ep, Spread(options, "method" :> "POST" @@ "body" :> body))

\* public async put
Put(ep, body, options) ==
  Request(ep, Spread(options, "method" :> "PUT" @@ "body" :> body))

\* public async patch
Patch(ep, body, options) ==
  Request(ep, Spread(options, "method" :> "PATCH" @@ "body" :> body))

\* public async delete
Delete(ep, options) == Request(ep, Spread(options, "method" :> "DELETE"))

WithBearerAlways(h, tok) ==
  HeadersSet(h, "Authorization", "Bearer " \o StringOf(tok))

\* if (token) headers.set('Authorization', `Bearer ${token}`)
WithBearer(h, tok) ==
  IF Truthy(tok) THEN HeadersSet(h, "Authorization", "Bearer " \o tok.s) ELSE h

TokenResolvesIntoDefaults(tok) ==
  /\ pc = "awaitToken"
  /\ token' = tok
  /\ IssueFetch(endpoint, opts, WithBearer(headers, tok))
  /\ client' = [client EXCEPT !.config =
                  Spread(@, "defaultHeaders" :> ("Authorization" :> "Bearer"))]
  /\ UNCHANGED <<endpoint, opts, response, parsed, tokenCalls, esVars, uiVars, appended>>

\* the token supplier resolves (lines 71-82)
TokenResolves(tok) ==
  /\ pc = "awaitToken"
  /\ token' = tok
  /\ IssueFetch(endpoint, opts, WithBearer(headers, tok))
  /\ UNCHANGED <<client, endpoint, opts, response, parsed, tokenCalls, esVars, uiVars, appended>>

\* the token supplier rejects: the catch clause runs
TokenRejects(error) ==
  /\ pc = "awaitToken"
  /\ HandleError(error)
  /\ UNCHANGED <<client, endpoint, opts, headers, token, inflight, response, parsed,
                 fetchCalls, tokenCalls, esVars, uiVars, appended>>

FetchResolvesThenParses(resp) ==
  /\ pc = "awaitFetch"
  /\ response' = resp
  /\ inflight' = None
  /\ pc' = "awaitParse"
  /\ UNCHANGED <<client, endpoint, opts, headers, token, parsed, cause, outcome,
                 fetchCalls, tokenCalls, loginRedirects, esVars, uiVars, appended>>

\* fetch resolves with a response (lines 82-93)
FetchResolves(resp) ==
  /\ pc = "awaitFetch"
  /\ response' = resp
  /\ inflight' = None
  /\ IF isRedirect(resp)
     THEN /\ outcome' = Resolved(RedirectEnvelope(resp))
          /\ pc' = "done"
     ELSE /\ pc' = "awaitParse"
          /\ UNCHANGED outcome
  /\ UNCHANGED <<client, endpoint, opts, headers, token, parsed, cause, fetchCalls,
                 tokenCalls, loginRedirects, esVars, uiVars, appended>>

\* the transport answers the request in flight
FetchAnswered ==
  /\ pc = "awaitFetch"
  /\ \E resp \in Responses(inflight.url, inflight.fetchOptions.redirect) :
       FetchResolves(resp)

\* fetch rejects: a network failure, or a redirect under redirect: 'error'
FetchRejects ==
  /\ pc = "awaitFetch"
  /\ inflight' = None
  /\ HandleError(NewError(Str("Failed to fetch")))
  /\ UNCHANGED <<client, endpoint, opts, headers, token, response, parsed, fetchCalls,
                 tokenCalls, esVars, uiVars, appended>>

\* the error request throws for a failed response (line 95)
ThrownForResponse(body, resp) ==
  IF client.klass = "ExtendedFetchClient"
  THEN createErrorExtended(body, resp)
  ELSE createError(body)

\* response.json() or response.text() resolves (lines 93-117)
ParseResolves ==
  /\ pc = "awaitParse"
  /\ ~(WantsJson(response) /\ response.wire.kind = "malformed")
  /\ LET body == IF WantsJson(response) THEN response.wire.v
                 ELSE IF response.wire.kind = "malformed" THEN Str("<html>")
                 ELSE Str(JSONstringify(response.wire.v).text)
     IN /\ parsed' = body
        /\ IF ~response.ok \/ Prop(body, "status") = Str("error")
           THEN HandleError(ThrownForResponse(body, response))
           ELSE /\ outcome' = Resolved([body |-> ShapeBody(body, ReturnColumnsOf(opts)),
                                        error |-> Null])
                /\ pc' = "done"
                /\ UNCHANGED <<cause, loginRedirects>>
  /\ UNCHANGED <<client, endpoint, opts, headers, token, inflight, response, fetchCalls,
                 tokenCalls, esVars, uiVars, appended>>

\* response.json() rejects on a malformed body
ParseRejects ==
  /\ pc = "awaitParse"
  /\ WantsJson(response) /\ response.wire.kind = "malformed"
  /\ HandleError(NewError(Str("Unexpected token < in JSON at position 0")))
  /\ UNCHANGED <<client, endpoint, opts, headers, token, inflight, response, parsed,
                 fetchCalls, tokenCalls, esVars, uiVars, appended>>

\* ExtendedFetchClient.handleAuthFailure settles, and handleError goes on:
\* a recovered client calls super.request(url, opts) again
RefreshSettles(refreshed) ==
  /\ pc = "awaitRefresh"
  /\ IF refreshed = "true"
     THEN /\ fetchCalls < MaxFetch
          /\ StartRequest(endpoint, opts)
     ELSE /\ loginRedirects' = 1
          /\ outcome' = Rejection(cause)
          /\ pc' = "done"
          /\ UNCHANGED <<endpoint, opts, headers, token, inflight, response, parsed,
                         cause, fetchCalls, tokenCalls>>
  /\ UNCHANGED <<client, esVars, uiVars, appended>>

\* the caller takes the settled promise
Return ==
  /\ pc = "done"
  /\ pc' = "idle"
  /\ endpoint' = None
  /\ opts' = None
  /\ headers' = None
  /\ token' = None
  /\ inflight' = None
  /\ response' = None
  /\ parsed' = None
  /\ cause' = None
  /\ outcome' = None
  /\ fetchCalls' = 0
  /\ tokenCalls' = 0
  /\ loginRedirects' = 0
  /\ UNCHANGED <<client, esVars, uiVars, appended>>

Next ==
  \/ \E k \in Klasses, c \in ConfigInputs : Construct(k, c)
  \/ \E ep \in Endpoints, o \in OptionInputs : Request(ep, o)
  \/ \E ep \in Endpoints, o \in WrapperOptionInputs : Get(ep, o)
  \/ \E ep \in Endpoints, b \in WrapperBodies : Post(ep, b, EmptyMap)
  \/ \E ep \in Endpoints, b \in WrapperBodies : Put(ep, b, EmptyMap)
  \/ \E ep \in Endpoints, b \in WrapperBodies : Patch(ep, b, EmptyMap)
  \/ \E ep \in Endpoints, o \in WrapperOptionInputs : Delete(ep, o)
  \/ \E tok \in TokenValues : TokenResolves(tok)
  \/ \E e \in ThrownValues : TokenRejects(e)
  \/ FetchAnswered
  \/ FetchRejects
  \/ ParseResolves
  \/ ParseRejects
  \/ \E r \in {"true", "false", "throws"} : RefreshSettles(r)
  \/ Return

Spec == Init /\ [][Next]_vars

-----------------------------------------------------------------------------
(* The URL prepareRequest builds, as a function of the endpoint and the
   query-parameter record *)

MaxParams == 2

\* endpoints with no, one and two leading slashes, and the two shortest ones
UrlEndpoints ==
  { <<"users">>, <<"/", "users">>, <<"/", "/", "users">>, <<>>, <<"/">> }

\* parameter names; none is integer-like, so Object.entries and for...in
\* enumerate them in insertion order
QueryKeys == {"q", "ids", "page"}

QueryValues ==
  { Str("hello"), Str("a b"), Str(""), Num(1), Num(0), Bool(TRUE), Bool(FALSE),
    Null, Undefined, NaN,
    Arr(<<>>), Arr(<<Num(1), Num(2), Num(3)>>), Arr(<<Num(1), Null, Num(2)>>),
    Arr(<<Num(0), Bool(FALSE), Str("")>>), Arr(<<Undefined>>) }

\* records of at most MaxParams parameters under distinct names
QueryRecords ==
  { Obj(q) : q \in { r \in SeqsUpTo({Entry(k, v) : k \in QueryKeys, v \in QueryValues},
                                     MaxParams) :
                        \A i, j \in 1..Len(r) : i # j => r[i].k # r[j].k } }

UrlOptionInputs == { EmptyMap } \cup { "searchParams" :> p : p \in QueryRecords }

InitUrl ==
  /\ client = [klass |-> "FetchClient", config |-> "baseUrl" :> BaseUrl]
  /\ pc = "call"
  /\ endpoint \in UrlEndpoints
  /\ opts \in UrlOptionInputs
  /\ headers = None
  /\ token = None
  /\ inflight = None
  /\ response = None
  /\ parsed = None
  /\ cause = None
  /\ outcome = None
  /\ fetchCalls = 0
  /\ tokenCalls = 0
  /\ loginRedirects = 0
  /\ services = <<>>
  /\ instances = EmptyMap
  /\ baseMust = <<>>
  /\ esPc = "idle"
  /\ esCall = None
  /\ esResult = None
  /\ uiPc = "idle"
  /\ uiCall = None
  /\ uiLog = <<>>
  /\ appended = <<>>

\* prepareRequest(endpoint, options, new Headers()) is applied to the inputs
PrepareUrl ==
  /\ pc = "call"
  /\ LET prepared == prepareRequest(client.config, endpoint, opts, NewHeaders(EmptyMap))
     IN /\ inflight' = [url |-> prepared.url, fetchOptions |-> prepared.fetchOptions]
        /\ headers' = prepared.headers
  /\ appended' = IF "searchParams" \in DOMAIN opts
                 THEN Appended(clearObj(opts.searchParams))
                 ELSE <<>>
  /\ pc' = "built"
  /\ UNCHANGED <<client, endpoint, opts, token, response, parsed, cause, outcome,
                 fetchCalls, tokenCalls, loginRedirects, esVars, uiVars>>

NextUrl == PrepareUrl

SpecUrl == InitUrl /\ [][NextUrl]_vars

-----------------------------------------------------------------------------
(* Properties *)

IsBase == client.klass = "FetchClient"
Settled == pc = "done"
InFlight == pc = "awaitFetch"

\* opts.headers || this.config.defaultHeaders, before request touches them
ResolvedHeaders ==
  NewHeaders(IF "headers" \in DOMAIN opts THEN opts.headers
             ELSE IF "defaultHeaders" \in DOMAIN client.config
             THEN client.config.defaultHeaders
             ELSE EmptyMap)

SentHeaders == inflight.fetchOptions.headers

IsSuccessOutcome ==
  /\ outcome.settled = "resolved"
  /\ DOMAIN outcome.value = {"body", "error"}
  /\ outcome.value.error = Null

IsRedirectOutcome ==
  /\ outcome.settled = "resolved"
  /\ DOMAIN outcome.value = {"body", "error", "redirect"}
  /\ outcome.value.body = Obj(<<>>)
  /\ outcome.value.error = Null

IsFailureOutcome ==
  /\ outcome.settled = "rejected"
  /\ DOMAIN outcome.value = {"body", "error"}
  /\ outcome.value.body = Null
  /\ outcome.value.error.t = "str"

\* C1: every settled call of request is exactly one of: a resolved envelope
\* with a body, error null and no redirect descriptor; a resolved envelope with
\* a redirect descriptor, an empty body and error null; a failure carrying body
\* null and an error string.  No outcome has a non-null error and a body.
C1_ExactlyOneOutcomeShape ==
  Settled =>
    /\ Cardinality({ x \in {"success", "redirect", "failure"} :
                       \/ x = "success" /\ IsSuccessOutcome
                       \/ x = "redirect" /\ IsRedirectOutcome
                       \/ x = "failure" /\ IsFailureOutcome }) = 1
    /\ outcome.value.error # Null => outcome.value.body = Null

C1_Witness ==
  /\ Settled /\ IsBase
  /\ response # None /\ response.status = 500
  /\ parsed = Full
  /\ IsFailureOutcome

\* C2 (as claimed): with the documented ExtendedFetchClient one call of
\* request issues at most two network requests, whatever the server and the
\* refresh answer.
C2_AtMostOneRetry == fetchCalls <= 2

\* C3 (as claimed): every settled call of the base FetchClient.request has
\* issued exactly one network request.
C3_ExactlyOneFetch == Settled /\ IsBase => fetchCalls = 1

FailedBeforeFetch ==
  \/ tokenCalls = 1 /\ token = None
  \/ ~JSONstringify(BodyOf(opts)).ok

\* C3 (amended): a call of the base FetchClient.request never issues more
\* than one network request; when it settles it has issued exactly one,
\* unless it failed before the transport call (the token supplier rejected,
\* or the body could not be serialized), and then it has issued none.
C3_AtMostOneFetch ==
  IsBase =>
    /\ fetchCalls <= 1
    /\ Settled => (fetchCalls = 0 <=> FailedBeforeFetch)

C3_Witness ==
  /\ Settled /\ IsBase
  /\ tokenCalls = 1 /\ token = None
  /\ fetchCalls = 0
  /\ outcome.settled = "rejected"

CallerOptedOutOfFollow == "redirect" \in DOMAIN opts /\ opts.redirect # "follow"

\* C4 (as claimed): request settles with a redirect outcome if and only if
\* the response is an opaque redirect or has a 3xx status and the caller used
\* a non-follow redirect mode; under 'follow' no response becomes a redirect
\* outcome.
C4_RedirectOnlyWhenOptedIn ==
  Settled /\ response # None =>
    (IsRedirectOutcome <=> (isRedirect(response) /\ CallerOptedOutOfFollow))

ColumnSet == Range(ReturnColumnsOf(opts))

\* y is x after the per-object reduction: an object holding every requested
\* key keeps exactly those keys with their values as they were, anything else
\* is unchanged
ReducedTo(x, y) ==
  IF x.t = "obj" /\ ColumnSet \subseteq Keys(x)
  THEN /\ y.t = "obj"
       /\ Keys(y) = ColumnSet
       /\ \A k \in ColumnSet : Prop(y, k) = Prop(x, k)
  ELSE y = x

EachReducedTo(xs, ys) ==
  /\ ys.t = "arr"
  /\ Len(ys.q) = Len(xs.q)
  /\ \A i \in 1..Len(xs.q) : ReducedTo(xs.q[i], ys.q[i])

FilteredSuccess ==
  Settled /\ parsed # None /\ outcome.settled = "resolved" /\ ColumnSet # {}

\* C5 (as claimed): with a non-empty return_columns, a body that is an object
\* holding every requested key is returned with exactly the requested keys, an
\* array body is reduced element by element, and an object missing a
\* requested key is returned unchanged.
C5_BodyItselfReduced ==
  FilteredSuccess =>
    IF parsed.t = "arr" THEN EachReducedTo(parsed, outcome.value.body)
    ELSE ReducedTo(parsed, outcome.value.body)

\* C5 (amended): with a non-empty return_columns and a successful request, an
\* array body is reduced element by element (an element that is an object
\* holding every requested key keeps exactly the requested keys, any other
\* element is unchanged); an object body keeps all of its own keys, and the
\* same reduction is applied to each of its values, and to each element of a
\* value that is an array; any other body is unchanged.  The values kept
\* inside a reduced object are never filtered themselves.
C5_ValuesReduced ==
  FilteredSuccess =>
    LET b == parsed
        r == outcome.value.body
    IN CASE b.t = "arr" -> EachReducedTo(b, r)
         [] b.t = "obj" ->
              /\ r.t = "obj"
              /\ Len(r.e) = Len(b.e)
              /\ \A i \in 1..Len(b.e) :
                   /\ r.e[i].k = b.e[i].k
                   /\ IF b.e[i].v.t = "arr"
                      THEN EachReducedTo(b.e[i].v, r.e[i].v)
                      ELSE ReducedTo(b.e[i].v, r.e[i].v)
         [] OTHER -> r = b

C5_Witness ==
  /\ FilteredSuccess
  /\ ColumnSet = {"id", "name"}
  /\ parsed = Obj(<<Entry("data", Arr(<<Full, Partial>>)), Entry("total", Num(2))>>)
  /\ outcome.value.body =
       Obj(<<Entry("data", Arr(<<Obj(<<Entry("id", Str("v")), Entry("name", Str("v"))>>),
                                 Partial>>)),
             Entry("total", Num(2))>>)

\* a failure inside request, told from what the call went through
FailureHappened ==
  \/ tokenCalls = 1 /\ token = None                         \* the token supplier
  \/ ~JSONstringify(BodyOf(opts)).ok                        \* serialization
  \/ fetchCalls = 1 /\ response = None                      \* the transport
  \/ response # None /\ ~isRedirect(response) /\ parsed = None   \* parsing
  \/ parsed # None /\ (~response.ok \/ Prop(parsed, "status") = Str("error"))

ResponseFailed == ~response.ok \/ Prop(parsed, "status") = Str("error")

SupplierInvoked == tokenCalls = 1

\* C8: the token supplier is invoked if and only if one is configured and the
\* resolved headers hold no Authorization header; the outgoing request carries
\* Authorization: Bearer <token> if and only if the supplier was invoked and
\* returned a non-empty token; an Authorization header already present is
\* sent unchanged.
C8_BearerInjection ==
  /\ pc \in {"awaitToken", "awaitFetch", "awaitParse", "awaitRefresh", "done"} =>
       ( SupplierInvoked <=>
           ( "getAuthToken" \in DOMAIN client.config
             /\ "authorization" \notin DOMAIN ResolvedHeaders ) )
  /\ InFlight =>
       /\ ( SupplierInvoked /\ token.t = "str" /\ token.s # "" ) =>
            ( "authorization" \in DOMAIN SentHeaders
              /\ SentHeaders["authorization"] = "Bearer " \o token.s )
       /\ ~( SupplierInvoked /\ token.t = "str" /\ token.s # "" ) =>
            IF "authorization" \in DOMAIN ResolvedHeaders
            THEN /\ "authorization" \in DOMAIN SentHeaders
                 /\ SentHeaders["authorization"] = ResolvedHeaders["authorization"]
            ELSE "authorization" \notin DOMAIN SentHeaders
       /\ "authorization" \in DOMAIN ResolvedHeaders =>
            SentHeaders["authorization"] = ResolvedHeaders["authorization"]

C8_Witness ==
  /\ InFlight
  /\ SupplierInvoked
  /\ token = Str("tok1")
  /\ "headers" \in DOMAIN opts
  /\ SentHeaders["authorization"] = "Bearer tok1"

\* C9: in the outgoing request a plain-record body is sent as its JSON
\* serialization, with Content-Type application/json unless a Content-Type
\* was already present, which is kept; a FormData body is sent as it is and
\* Content-Type is not application/json; without a body the outgoing headers
\* hold no Content-Type.
C9_BodyAndContentType ==
  InFlight =>
    LET body == BodyOf(opts)
        sent == inflight.fetchOptions.body
    IN CASE body.t = "obj" ->
              /\ sent = Str("{\"name\":\"Alice\"}")
              /\ "content-type" \in DOMAIN SentHeaders
              /\ SentHeaders["content-type"] =
                   ( IF "content-type" \in DOMAIN ResolvedHeaders
                     THEN ResolvedHeaders["content-type"]
                     ELSE "application/json" )
         [] body.t = "formdata" ->
              /\ sent = FormDataValue
              /\ ( "content-type" \in DOMAIN SentHeaders
                     => SentHeaders["content-type"] # "application/json" )
         [] OTHER ->
              /\ sent = Undefined
              /\ "content-type" \notin DOMAIN SentHeaders

C9_Witness ==
  /\ InFlight
  /\ BodyOf(opts).t = "obj"
  /\ "headers" \in DOMAIN opts /\ "Content-Type" \in DOMAIN opts.headers
  /\ SentHeaders["content-type"] = "text/plain"
  /\ inflight.fetchOptions.body = Str("{\"name\":\"Alice\"}")

\* C10: every request FetchClient issues has credentials 'include', mode
\* 'cors' and referrerPolicy 'no-referrer', whatever the caller put in
\* options for them, and redirect is the caller's redirect option when given
\* and 'follow' otherwise.
C10_FixedTransportOptions ==
  InFlight =>
    /\ inflight.fetchOptions.credentials = "include"
    /\ inflight.fetchOptions.mode = "cors"
    /\ inflight.fetchOptions.referrerPolicy = "no-referrer"
    /\ inflight.fetchOptions.redirect =
         ( IF "redirect" \in DOMAIN opts THEN opts.redirect ELSE "follow" )

C10_Witness ==
  /\ InFlight
  /\ "credentials" \in DOMAIN opts /\ opts.credentials = "omit"
  /\ "redirect" \in DOMAIN opts /\ opts.redirect = "manual"
  /\ inflight.fetchOptions.credentials = "include"
  /\ inflight.fetchOptions.redirect = "manual"

-----------------------------------------------------------------------------
(* src/src/services/es.ts: the query builder *)

MaxMust == 3

\* {...a, ...b} on objects: a's keys keep their place, b's values win
ObjSpreadLeftWins(a, b) ==
  Obj(a.e \o SelectSeq(b.e, LAMBDA en : en.k \notin Keys(a)))

ObjSpread(a, b) ==
  Obj([i \in 1..Len(a.e) |->
         IF a.e[i].k \in Keys(b) THEN Entry(a.e[i].k, Prop(b, a.e[i].k)) ELSE a.e[i]]
        \o SelectSeq(b.e, LAMBDA en : en.k \notin Keys(a)))

\* const source
source ==
  Arr(<<Str("title"), Str("images"), Str("sku"), Str("slug"), Str("price"),
        Str("name"), Str("updated_at"), Str("created_at")>>)

SortBy(field, order) == Arr(<<Obj(<<Entry(field, Str(order))>>)>>)

\* const sortNames
sortNames ==
  Obj(<<Entry("random",
              Obj(<<Entry("_script",
                          Obj(<<Entry("script", Str("Math.random()")),
                                Entry("type", Str("number")),
                                Entry("order", Str("asc"))>>))>>)),
        Entry("date_desc", SortBy("created_at", "desc")),
        Entry("date_asc", SortBy("created_at", "asc")),
        Entry("price_asc", SortBy("selling_price", "asc")),
        Entry("price_desc", SortBy("selling_price", "desc")),
        Entry("sale_desc", SortBy("sale_percent", "desc"))>>)

\* [{ _score: 'desc' }]
RelevanceDesc == SortBy("_score", "desc")

\* the sort productQueryBuilder resolves (lines 78-80)
ResolveSort(options, config) ==
  IF Truthy(Prop(options, "sort"))
  THEN OrElse(Prop(OrElse(Prop(config, "sortNames"), Obj(<<>>)),
                   Prop(options, "sort").s),
              RelevanceDesc)
  ELSE RelevanceDesc

ReturnedSortIgnoringIds(options, sort) == sort

\* sort: options.ids ? {} : sort
ReturnedSort(options, sort) ==
  IF Truthy(Prop(options, "ids")) THEN Obj(<<>>) ELSE sort

\* the list productQueryBuilder leaves in baseMust (lines 66-73)
MustAfter(list, options) ==
  LET ids == Prop(options, "ids")
      extra == Prop(options, "must")
      must1 == IF Truthy(ids)
               THEN Append(list, Obj(<<Entry("terms", Obj(<<Entry("id", ids)>>))>>))
               ELSE list
  IN IF Truthy(extra)
     THEN IF extra.t = "arr" THEN must1 \o extra.q ELSE Append(must1, extra)
     ELSE must1

\* export function productQueryBuilder: the object it returns; its first
\* argument is left holding MustAfter
productQueryBuilder(list, options, config) ==
  LET must == MustAfter(list, options)
      additional == Prop(options, "additionalSources")
      src == IF Truthy(additional)
             THEN Arr(OrElse(Prop(config, "source"), Arr(<<>>)).q \o additional.q)
             ELSE Prop(config, "source")
      sort == ResolveSort(options, config)
  IN Obj(<<Entry("query", Obj(<<Entry("bool", Obj(<<Entry("must", Arr(must))>>))>>)),
           Entry("size", OrElse(Prop(options, "size"), Num(12))),
           Entry("_source", src),
           Entry("sort", ReturnedSort(options, sort)),
           Entry("from", Prop(options, "from"))>>)

\* this.config as the ESService constructor merges it (lines 152-155)
MergedConfig(config) ==
  Obj(<<Entry("sortNames",
              ObjSpread(sortNames, OrElse(Prop(config, "sortNames"), Obj(<<>>)))),
        Entry("source",
              Arr(source.q \o OrElse(Prop(config, "source"), Arr(<<>>)).q))>>)

\* the entries that are given, as an object
ObjOf(entries) == Obj(SelectSeq(entries, LAMBDA en : en.v # None))

Clause(field, value) == Obj(<<Entry("term", Obj(<<Entry(field, Str(value))>>))>>)

\* caller overrides of the search configuration
ESconfigInputs ==
  { Obj(<<>>),
    Obj(<<Entry("source", Arr(<<Str("brand")>>))>>),
    Obj(<<Entry("sortNames",
                Obj(<<Entry("date_desc", SortBy("published_at", "desc")),
                      Entry("popular", SortBy("views", "desc"))>>))>>),
    Obj(<<Entry("sortNames", Obj(<<Entry("date_desc", Undefined)>>)),
          Entry("source", Undefined)>>) }

\* QueryOptions values: each varies one group of fields
QueryOptionInputs ==
  LET idss == { None, Arr(<<>>), Arr(<<Str("7"), Str("9")>>) }
      sorts == { None, Str("date_desc"), Str("popular"), Str("random") }
      musts == { None, Clause("brand", "acme"),
                 Arr(<<Clause("color", "red"), Clause("brand", "acme")>>) }
      sizes == { None, Num(0), Num(24) }
      froms == { None, Num(10) }
      adds == { None, Arr(<<Str("brand")>>) }
  IN { ObjOf(<<Entry("ids", i), Entry("sort", o)>>) : i \in idss, o \in sorts }
       \cup { ObjOf(<<Entry("ids", i), Entry("must", m)>>) : i \in idss, m \in musts }
       \cup { ObjOf(<<Entry("size", z), Entry("from", f), Entry("additionalSources", a)>>) :
                z \in sizes, f \in froms, a \in adds }

\* the configurations productQueryBuilder is handed: bare ones and merged ones
BuilderConfigs == ESconfigInputs \cup { MergedConfig(c) : c \in ESconfigInputs }

InitQuery ==
  /\ client = NoClient
  /\ pc = "new"
  /\ endpoint = None
  /\ opts = None
  /\ headers = None
  /\ token = None
  /\ inflight = None
  /\ response = None
  /\ parsed = None
  /\ cause = None
  /\ outcome = None
  /\ fetchCalls = 0
  /\ tokenCalls = 0
  /\ loginRedirects = 0
  /\ services = <<>>
  /\ instances = EmptyMap
  /\ baseMust \in { <<>>, <<Clause("status", "active")>> }
  /\ esPc = "idle"
  /\ esCall = None
  /\ esResult = None
  /\ uiPc = "idle"
  /\ uiCall = None
  /\ uiLog = <<>>
  /\ appended = <<>>

BuildQueryOnCopy(options, config) ==
  /\ esPc = "idle"
  /\ Len(baseMust) < MaxMust
  /\ esCall' = [op |-> "productQueryBuilder", list |-> baseMust,
                options |-> options, config |-> config]
  /\ esResult' = [settled |-> "returned",
                  value |-> productQueryBuilder(baseMust, options, config)]
  /\ UNCHANGED <<fetchVars, services, instances, baseMust, esPc, uiVars, appended>>

\* a caller calls productQueryBuilder(baseMust, options, config) on its list
BuildQuery(options, config) ==
  /\ esPc = "idle"
  /\ Len(baseMust) < MaxMust
  /\ esCall' = [op |-> "productQueryBuilder", list |-> baseMust,
                options |-> options, config |-> config]
  /\ baseMust' = MustAfter(baseMust, options)
  /\ esResult' = [settled |-> "returned",
                  value |-> productQueryBuilder(baseMust, options, config)]
  /\ UNCHANGED <<fetchVars, services, instances, esPc, uiVars, appended>>

NextQuery == \E o \in QueryOptionInputs, c \in BuilderConfigs : BuildQuery(o, c)

SpecQuery == InitQuery /\ [][NextQuery]_vars

-----------------------------------------------------------------------------
(* src/src/services/es.ts: ESService *)

MaxServices == 2

EsHost == "https://es.example.com"

\* a password with a character above U+00FF, which btoa cannot encode
NonLatin1Password == "s3cret-U+2713"

\* btoa: [ok |-> FALSE] when it throws InvalidCharacterError
Btoa(text) ==
  CASE text = "elastic:secret" -> [ok |-> TRUE, text |-> "ZWxhc3RpYzpzZWNyZXQ="]
    [] OTHER -> [ok |-> FALSE]

InvalidCharacterError == NewError(Str("The string to be encoded contains invalid characters."))
StringifyTypeError == NewError(Str("Do not know how to serialize a BigInt"))
NetworkError == NewError(Str("Failed to fetch"))
JsonSyntaxError == NewError(Str("Unexpected token < in JSON at position 0"))
HitsTypeError == NewError(Str("Cannot read properties of undefined (reading 'hits')"))

\* the arguments ESServiceProps the constructor is called with
Props(index, config, password) ==
  [index |-> index, config |-> config, host |-> EsHost,
   auth |-> [username |-> "elastic", password |-> password]]

ServiceProps ==
  { Props("products", Undefined, "secret"),
    Props("products", Obj(<<Entry("source", Arr(<<Str("brand")>>))>>), "secret"),
    Props("events",
          Obj(<<Entry("sortNames",
                      Obj(<<Entry("date_desc", SortBy("published_at", "desc")),
                            Entry("popular", SortBy("views", "desc"))>>))>>),
          "secret"),
    Props("events",
          Obj(<<Entry("sortNames", Obj(<<Entry("date_desc", Undefined)>>)),
                Entry("source", Undefined)>>),
          "secret"),
    Props("products", Obj(<<>>), NonLatin1Password) }

IndexNames == {"products", "events", "orders"}

\* the object the constructor initializes (lines 147-155)
NewService(props) ==
  [index |-> props.index,
   username |-> props.auth.username,
   password |-> props.auth.password,
   host |-> props.host,
   path |-> "/" \o props.index \o "/_search",
   config |-> MergedConfig(props.config)]

NewESServiceReplacing(props) ==
  /\ Len(services) < MaxServices
  /\ services' = Append(services, NewService(props))
  /\ instances' = [n \in DOMAIN instances \cup {props.index} |->
                     IF n = props.index THEN Len(services) + 1 ELSE instances[n]]
  /\ UNCHANGED <<fetchVars, baseMust, esPc, esCall, esResult, uiVars, appended>>

\* new ESService(props): the instance registers itself unless its index
\* name already has an instance
NewESService(props) ==
  /\ Len(services) < MaxServices
  /\ services' = Append(services, NewService(props))
  /\ instances' = IF props.index \in DOMAIN instances
                  THEN instances
                  ELSE instances @@ (props.index :> Len(services) + 1)
  /\ UNCHANGED <<fetchVars, baseMust, esPc, esCall, esResult, uiVars, appended>>

\* the last search that returned before the call: its instance and options
PreviousOf(call) == IF call = None THEN None ELSE call.previous

\* static getInstance(index): the registered instance, or a throw; the call
\* notes how many services had been constructed when it ran
GetInstance(index) ==
  /\ esPc = "idle"
  /\ esCall' = [op |-> "getInstance", index |-> index, constructed |-> Len(services),
                previous |-> PreviousOf(esCall)]
  /\ esResult' = IF index \notin DOMAIN instances
                 THEN [settled |-> "threw",
                       value |-> NewError(Str("ES instance for index \"" \o index
                                                \o "\" not initialized"))]
                 ELSE [settled |-> "returned", value |-> instances[index]]
  /\ esPc' = "done"
  /\ UNCHANGED <<fetchVars, services, instances, baseMust, uiVars, appended>>

\* the arguments post hands to fetch: [ok |-> FALSE, error] when evaluating
\* them throws (btoa first, then JSON.stringify)
PostArguments(self, url, data, contentType) ==
  LET auth == Btoa(self.username \o ":" \o self.password)
      json == IF contentType = "application/json" THEN JSONstringify(data)
              ELSE [ok |-> TRUE, text |-> data.s]
  IN IF ~auth.ok THEN [ok |-> FALSE, error |-> InvalidCharacterError]
     ELSE IF ~json.ok THEN [ok |-> FALSE, error |-> StringifyTypeError]
     ELSE [ok |-> TRUE,
           url |-> self.host \o url,
           init |-> [method |-> "POST", mode |-> "cors", cache |-> "force-cache",
                     headers |-> ("Authorization" :> ("Basic " \o auth.text)
                                    @@ "Content-Type" :> contentType),
                     redirect |-> "follow", referrerPolicy |-> "no-referrer",
                     body |-> json.text]]

\* export function convertHits: [ok |-> FALSE, error] when it throws
convertHits(c) ==
  IF ~c.ok THEN [ok |-> TRUE, value |-> Arr(<<>>)]
  ELSE LET hits == Prop(Prop(c.data, "hits"), "hits")
       IN IF Prop(c.data, "hits").t # "obj" \/ hits.t # "arr"
          THEN [ok |-> FALSE, error |-> HitsTypeError]
          ELSE [ok |-> TRUE,
                value |-> Arr([i \in 1..Len(hits.q) |->
                                 ObjSpread(Obj(<<Entry("id", Prop(hits.q[i], "_id"))>>),
                                           Prop(hits.q[i], "_source"))])]

\* whether the operation passes post's result through convertHits
ConvertsHits(op) == op \in {"rawHits", "search"}

\* how an operation settles once post has resolved with c
SettledWith(op, c) ==
  IF ConvertsHits(op)
  THEN LET hits == convertHits(c)
       IN IF hits.ok THEN [settled |-> "resolved", value |-> hits.value]
          ELSE [settled |-> "rejected", value |-> hits.error]
  ELSE [settled |-> "resolved", value |-> c]

\* async post(url, data, contentType), as called by raw, rawHits, msearch and
\* search with the argument they were given: up to the fetch call
post(op, i, given, url, data, contentType) ==
  LET args == PostArguments(services[i], url, data, contentType)
  IN IF args.ok
     THEN /\ esCall' = [op |-> op, self |-> i, args |-> given, data |-> data,
                        request |-> [url |-> args.url, init |-> args.init],
                        response |-> None, error |-> None,
                        previous |-> PreviousOf(esCall)]
          /\ esPc' = "awaitFetch"
          /\ esResult' = None
     ELSE /\ esCall' = [op |-> op, self |-> i, args |-> given, data |-> data,
                        request |-> None, response |-> None, error |-> None,
                        previous |-> PreviousOf(esCall)]
          /\ esPc' = "done"
          /\ esResult' = [settled |-> "rejected", value |-> args.error]

EsQueries ==
  { Obj(<<Entry("query", Obj(<<Entry("match_all", Obj(<<>>))>>))>>),
    Obj(<<Entry("size", BigIntValue)>>) }

SearchOptionInputs ==
  { Undefined,
    Obj(<<Entry("ids", Arr(<<Str("7"), Str("9")>>)), Entry("sort", Str("date_desc"))>>),
    Obj(<<Entry("must", Clause("brand", "acme")),
          Entry("additionalSources", Arr(<<Str("brand")>>))>>),
    Obj(<<Entry("sort", Str("date_desc")), Entry("size", Num(24)), Entry("from", Num(10))>>) }

\* raw = (query) => this.post(this.path, query)
Raw(i, query) ==
  /\ esPc = "idle"
  /\ i \in 1..Len(services)
  /\ post("raw", i, query, services[i].path, query, "application/json")
  /\ UNCHANGED <<fetchVars, services, instances, baseMust, uiVars, appended>>

\* rawHits = (query) => this.post(this.path, query).then(convertHits)
RawHits(i, query) ==
  /\ esPc = "idle"
  /\ i \in 1..Len(services)
  /\ post("rawHits", i, query, services[i].path, query, "application/json")
  /\ UNCHANGED <<fetchVars, services, instances, baseMust, uiVars, appended>>

\* msearch = (queries) => this.post(`/${index}/_msearch`, ndjson, ...): the
\* body is serialized by msearch itself, which throws when that fails
Msearch(i, queries) ==
  /\ esPc = "idle"
  /\ i \in 1..Len(services)
  /\ LET lines == [j \in 1..Len(queries) |-> JSONstringify(queries[j])]
     IN IF \E j \in 1..Len(lines) : ~lines[j].ok
        THEN /\ esCall' = [op |-> "msearch", self |-> i, args |-> Arr(queries),
                           data |-> Arr(queries), request |-> None,
                           response |-> None, error |-> None,
                           previous |-> PreviousOf(esCall)]
             /\ esPc' = "done"
             /\ esResult' = [settled |-> "threw", value |-> StringifyTypeError]
        ELSE post("msearch", i, Arr(queries), "/" \o services[i].index \o "/_msearch",
                  Str("{ }\n" \o JoinWith([j \in 1..Len(lines) |-> lines[j].text], "\n\n")
                        \o "\n"),
                  "application/x-ndjson")
  /\ UNCHANGED <<fetchVars, services, instances, baseMust, uiVars, appended>>

SearchOnSharedList(i, options) ==
  /\ esPc = "idle"
  /\ i \in 1..Len(services)
  /\ post("search", i, options, services[i].path,
          productQueryBuilder(baseMust, IF options = Undefined THEN Obj(<<>>) ELSE options,
                              services[i].config),
          "application/json")
  /\ baseMust' = MustAfter(baseMust, IF options = Undefined THEN Obj(<<>>) ELSE options)
  /\ UNCHANGED <<fetchVars, services, instances, uiVars, appended>>

\* search = (options) => this.post(this.path, productQueryBuilder([], options,
\* this.config)).then(convertHits)
Search(i, options) ==
  /\ esPc = "idle"
  /\ i \in 1..Len(services)
  /\ post("search", i, options, services[i].path,
          productQueryBuilder(<<>>, IF options = Undefined THEN Obj(<<>>) ELSE options,
                              services[i].config),
          "application/json")
  /\ UNCHANGED <<fetchVars, services, instances, baseMust, uiVars, appended>>

Hit(id, src) == Obj(<<Entry("_id", Str(id)), Entry("_source", src)>>)

HitsBody ==
  Obj(<<Entry("hits",
              Obj(<<Entry("hits",
                          Arr(<<Hit("1", Obj(<<Entry("title", Str("Lamp"))>>)),
                                Hit("2", Obj(<<Entry("title", Str("Desk")),
                                               Entry("id", Str("sku-2"))>>))>>))>>))>>)

\* the responses the search backend can answer with
EsResponses ==
  { Response("cors", 200, JsonType, EsHost, Json(HitsBody)),
    Response("cors", 200, JsonType, EsHost, Json(Obj(<<Entry("responses", Arr(<<>>))>>))),
    Response("cors", 404, JsonType, EsHost,
             Json(Obj(<<Entry("error", Str("index_not_found_exception"))>>))),
    Response("cors", 502, TextType, EsHost, Malformed) }

EsFetchRejectsUncaught ==
  /\ esPc = "awaitFetch"
  /\ esCall' = [esCall EXCEPT !.error = NetworkError]
  /\ esResult' = [settled |-> "rejected", value |-> NetworkError]
  /\ esPc' = "done"
  /\ UNCHANGED <<fetchVars, services, instances, baseMust, uiVars, appended>>

\* fetch resolves: response.json() is pending
EsFetchResolves(resp) ==
  /\ esPc = "awaitFetch"
  /\ esCall' = [esCall EXCEPT !.response = resp]
  /\ esPc' = "awaitJson"
  /\ UNCHANGED <<fetchVars, services, instances, baseMust, esResult, uiVars, appended>>

\* fetch rejects: the catch handler resolves post with {ok: false, data: e}
EsFetchRejects ==
  /\ esPc = "awaitFetch"
  /\ esCall' = [esCall EXCEPT !.error = NetworkError]
  /\ esResult' = SettledWith(esCall.op, [ok |-> FALSE, data |-> NetworkError])
  /\ esPc' = "done"
  /\ UNCHANGED <<fetchVars, services, instances, baseMust, uiVars, appended>>

\* response.json() resolves: post resolves with {ok: response.ok, data: json}
EsJsonResolves ==
  /\ esPc = "awaitJson"
  /\ esCall.response.wire.kind = "json"
  /\ esResult' = SettledWith(esCall.op, [ok |-> esCall.response.ok,
                                         data |-> esCall.response.wire.v])
  /\ esPc' = "done"
  /\ UNCHANGED <<fetchVars, services, instances, baseMust, esCall, uiVars, appended>>

\* response.json() rejects: the catch handler resolves post
EsJsonRejects ==
  /\ esPc = "awaitJson"
  /\ esCall.response.wire.kind = "malformed"
  /\ esCall' = [esCall EXCEPT !.error = JsonSyntaxError]
  /\ esResult' = SettledWith(esCall.op, [ok |-> FALSE, data |-> JsonSyntaxError])
  /\ esPc' = "done"
  /\ UNCHANGED <<fetchVars, services, instances, baseMust, uiVars, appended>>

\* the caller takes the result; the next operation can start
EsReturn ==
  /\ esPc = "done"
  /\ esPc' = "idle"
  /\ esCall' = [op |-> "none",
                previous |-> IF esCall.op = "search"
                             THEN [self |-> esCall.self, args |-> esCall.args]
                             ELSE esCall.previous]
  /\ esResult' = None
  /\ UNCHANGED <<fetchVars, services, instances, baseMust, uiVars, appended>>

NextES ==
  \/ \E p \in ServiceProps : NewESService(p)
  \/ \E n \in IndexNames : GetInstance(n)
  \/ \E i \in 1..MaxServices, q \in EsQueries : Raw(i, q)
  \/ \E i \in 1..MaxServices, q \in EsQueries : RawHits(i, q)
  \/ \E i \in 1..MaxServices, qs \in {<<>>} \cup {<<a, b>> : a, b \in EsQueries} :
       Msearch(i, qs)
  \/ \E i \in 1..MaxServices, o \in SearchOptionInputs : Search(i, o)
  \/ \E resp \in EsResponses : EsFetchResolves(resp)
  \/ EsFetchRejects
  \/ EsJsonResolves
  \/ EsJsonRejects
  \/ EsReturn

SpecES == Init /\ [][NextES]_vars

-----------------------------------------------------------------------------
(* src/src/utils.ts: handleShare, handleCopy, handleCopyZombies *)

\* the execution contexts: outside a browser there is no window, navigator or
\* document; in one, navigator.share may be missing, throw or return a
\* promise, navigator.clipboard may be missing, and execCommand('copy') may
\* copy, refuse (return false) or throw
Environments ==
  { [browser |-> FALSE, share |-> "absent", clipboard |-> "absent",
     execCommand |-> "throws"] }
  \cup [browser : {TRUE}, share : {"absent", "throws", "returns"},
        clipboard : {"absent", "present"},
        execCommand : {"copies", "refuses", "throws"}]

ShareUrls == {"https://example.com", "https://example.com/a b"}

ExecCommandError == NewError(Str("execCommand failed"))

Event(e, text) == [e |-> e, text |-> text]

\* cb?.(arg): what the call adds to the log
CallCb(cb, arg) == IF cb THEN <<Event("cb", arg)>> ELSE <<>>

\* export function handleCopyZombies: what it adds to the log
handleCopyZombies(env, text, cb) ==
  IF ~env.browser THEN <<>>
  ELSE <<Event("handleCopyZombies", text)>>
         \o (CASE env.execCommand = "copies" ->
                    <<Event("copied", text)>> \o CallCb(cb, "")
               [] env.execCommand = "refuses" -> CallCb(cb, "")
               [] OTHER -> CallCb(cb, StringOf(ExecCommandError)))

\* export function handleCopy, up to its return: the log it adds and whether
\* a writeText promise is left pending
handleCopy(env, text, cb) ==
  IF ~env.browser THEN [log |-> <<>>, pending |-> FALSE]
  ELSE IF env.clipboard = "present"
  THEN [log |-> <<Event("writeText", text)>>, pending |-> TRUE]
  ELSE [log |-> handleCopyZombies(env, text, cb), pending |-> FALSE]

\* a caller calls handleShare({title, url, cb})
HandleShare(env, url, cb) ==
  /\ uiPc = "idle"
  /\ uiCall' = [op |-> "handleShare", env |-> env, text |-> url, cb |-> cb]
  /\ IF ~env.browser
     THEN uiLog' = <<>> /\ uiPc' = "done"
     ELSE IF env.share = "returns"
     THEN uiLog' = <<Event("share", url)>> /\ uiPc' = "awaitShare"
     ELSE LET copy == handleCopy(env, url, cb)
          IN /\ uiLog' = (IF env.share = "throws" THEN <<Event("share", url)>> ELSE <<>>)
                           \o copy.log
             /\ uiPc' = IF copy.pending THEN "awaitWrite" ELSE "done"
  /\ UNCHANGED <<fetchVars, esVars, appended>>

\* a caller calls handleCopy(text, cb)
HandleCopy(env, text, cb) ==
  /\ uiPc = "idle"
  /\ uiCall' = [op |-> "handleCopy", env |-> env, text |-> text, cb |-> cb]
  /\ LET copy == handleCopy(env, text, cb)
     IN /\ uiLog' = copy.log
        /\ uiPc' = IF copy.pending THEN "awaitWrite" ELSE "done"
  /\ UNCHANGED <<fetchVars, esVars, appended>>

\* a caller calls handleCopyZombies(text, cb)
HandleCopyZombies(env, text, cb) ==
  /\ uiPc = "idle"
  /\ uiCall' = [op |-> "handleCopyZombies", env |-> env, text |-> text, cb |-> cb]
  /\ uiLog' = handleCopyZombies(env, text, cb)
  /\ uiPc' = "done"
  /\ UNCHANGED <<fetchVars, esVars, appended>>

\* the promise of navigator.share fulfils: nothing is chained to it
ShareResolves ==
  /\ uiPc = "awaitShare"
  /\ uiLog' = Append(uiLog, Event("shared", uiCall.text))
  /\ uiPc' = "done"
  /\ UNCHANGED <<fetchVars, esVars, uiCall, appended>>

\* the promise of navigator.share rejects (the user dismisses the sheet):
\* nothing is chained to it
ShareRejects ==
  /\ uiPc = "awaitShare"
  /\ uiLog' = Append(uiLog, Event("unhandledrejection", "share"))
  /\ uiPc' = "done"
  /\ UNCHANGED <<fetchVars, esVars, uiCall, appended>>

\* the promise of writeText fulfils: .then(() => cb?.()) runs
WriteResolves ==
  /\ uiPc = "awaitWrite"
  /\ uiLog' = uiLog \o <<Event("copied", uiCall.text)>> \o CallCb(uiCall.cb, "")
  /\ uiPc' = "done"
  /\ UNCHANGED <<fetchVars, esVars, uiCall, appended>>

\* the promise of writeText rejects (permission denied, document not
\* focused): no rejection handler is attached
WriteRejects ==
  /\ uiPc = "awaitWrite"
  /\ uiLog' = Append(uiLog, Event("unhandledrejection", "writeText"))
  /\ uiPc' = "done"
  /\ UNCHANGED <<fetchVars, esVars, uiCall, appended>>

\* the page goes on to its next call
UiReturn ==
  /\ uiPc = "done"
  /\ uiPc' = "idle"
  /\ uiCall' = None
  /\ uiLog' = <<>>
  /\ UNCHANGED <<fetchVars, esVars, appended>>

NextUI ==
  \/ \E env \in Environments, url \in ShareUrls, cb \in BOOLEAN : HandleShare(env, url, cb)
  \/ \E env \in Environments, text \in ShareUrls, cb \in BOOLEAN : HandleCopy(env, text, cb)
  \/ \E env \in Environments, text \in ShareUrls, cb \in BOOLEAN :
       HandleCopyZombies(env, text, cb)
  \/ ShareResolves
  \/ ShareRejects
  \/ WriteResolves
  \/ WriteRejects
  \/ UiReturn

SpecUI == Init /\ [][NextUI]_vars

-----------------------------------------------------------------------------
(* C11, C12: the query string and the path of the URL *)

UrlBuilt == pc = "built"

RECURSIVE Sum(_)
Sum(q) == IF q = <<>> THEN 0 ELSE Head(q) + Sum(Tail(q))

\* the values the spec lists as treated as absent
TreatedAsAbsent ==
  { Bool(FALSE), Num(0), Str(""), Null, Undefined, NaN }

IsPresentElement(it) == it # Null /\ it # Undefined

PairText(k, v) == UrlEncode(k) \o "=" \o UrlEncode(StringOf(v))

\* the pairs an entry is to contribute: none for an absent value, one per
\* element that is neither null nor undefined for an array, one otherwise
RECURSIVE ElementPairs(_, _)
ElementPairs(k, q) ==
  IF q = <<>> THEN <<>>
  ELSE (IF IsPresentElement(Head(q)) THEN <<PairText(k, Head(q))>> ELSE <<>>)
         \o ElementPairs(k, Tail(q))

RECURSIVE ExpectedPairs(_)
ExpectedPairs(e) ==
  IF e = <<>> THEN <<>>
  ELSE LET en == Head(e)
           mine == IF en.v \in TreatedAsAbsent THEN <<>>
                   ELSE IF en.v.t = "arr" THEN ElementPairs(en.k, en.v.q)
                   ELSE <<PairText(en.k, en.v)>>
       IN mine \o ExpectedPairs(Tail(e))

\* one pair per scalar parameter and one per array element, absent ones aside
PairsPerElement(e) ==
  Sum([i \in 1..Len(e) |->
         IF e[i].v \in TreatedAsAbsent THEN 0
         ELSE IF e[i].v.t = "arr" THEN Len(e[i].v.q)
         ELSE 1])

PathAndQuery(path) ==
  client.config.baseUrl \o path \o
    (IF "searchParams" \in DOMAIN opts
     THEN "?" \o objToQs(clearObj(opts.searchParams))
     ELSE "")

SentPath == IF StartsWithSlash(endpoint) THEN EndpointText(endpoint)
            ELSE "/" \o EndpointText(endpoint)

RECURSIVE LeadingSlashes(_)
LeadingSlashes(ep) ==
  IF ep # <<>> /\ Head(ep) = "/" THEN 1 + LeadingSlashes(Tail(ep)) ELSE 0

RECURSIVE AfterSlashes(_)
AfterSlashes(ep) ==
  IF ep # <<>> /\ Head(ep) = "/" THEN AfterSlashes(Tail(ep)) ELSE ep

RECURSIVE Slashes(_)
Slashes(n) == IF n = 0 THEN "" ELSE "/" \o Slashes(n - 1)

\* C12 as stated: whatever the endpoint's leading slashes, exactly one slash
\* stands between the base address and the path.
C12_ExactlyOneSlash ==
  UrlBuilt => inflight.url = PathAndQuery("/" \o EndpointText(AfterSlashes(endpoint)))

\* C12 (amended): the URL is the base address followed by the endpoint, which
\* gets one leading slash when it has none and is appended unchanged when it
\* starts with a slash (so two leading slashes stay two).
C12_SlashAddedWhenMissing ==
  UrlBuilt =>
    LET n == LeadingSlashes(endpoint)
    IN inflight.url =
         PathAndQuery(Slashes(IF n = 0 THEN 1 ELSE n)
                        \o EndpointText(AfterSlashes(endpoint)))

\* a URL was built for an endpoint given without a leading slash
C12_Witness ==
  /\ UrlBuilt
  /\ endpoint = <<"users">>
  /\ opts = EmptyMap
  /\ inflight.url = "https://api.example.com/users"

-----------------------------------------------------------------------------
(* C13, C14: the client configuration *)

Constructed == pc \notin {"new", "threw"}
CallRunning == pc \notin {"new", "threw", "idle"}

\* C13: once a client is constructed no step of any request, get, post, put,
\* patch or delete call changes its configuration (base address, default
\* headers, token supplier), and no step of a call changes the options object
\* the caller passed: the bearer token, the Content-Type and the deletions go
\* to the Headers built for that call only.
C13_ConfigurationNeverChanges ==
  [][/\ Constructed => client' = client
     /\ (CallRunning /\ pc' # "idle") => opts' = opts]_vars

\* a DELETE issued through the wrapper carries an injected bearer token while
\* the configuration holds no default headers at all
C13_Witness ==
  /\ InFlight
  /\ opts = "method" :> "DELETE"
  /\ "defaultHeaders" \notin DOMAIN client.config
  /\ HeadersGet(inflight.fetchOptions.headers, "Authorization") = Str("Bearer tok1")

ValidConfig(c) == "baseUrl" \in DOMAIN c /\ c.baseUrl # ""

\* C14: constructing with a missing or empty baseUrl throws and leaves no
\* client; constructing with a non-empty baseUrl yields a client holding a
\* copy of the configuration.
C14_ConstructionValidatesBaseUrl ==
  [][\A k \in Klasses, c \in ConfigInputs :
       Construct(k, c) =>
         IF ValidConfig(c)
         THEN pc' = "idle" /\ client' = [klass |-> k, config |-> c]
         ELSE pc' = "threw" /\ client' = NoClient]_vars

\* a construction threw and no client exists
C14_Witness == pc = "threw" /\ client = NoClient

-----------------------------------------------------------------------------
(* C16: ids force the empty sort *)

BuilderReturned == esCall # None /\ esCall.op = "productQueryBuilder"

HasIdList(options) == "ids" \in Keys(options) /\ Prop(options, "ids").t = "arr"

\* what the sort-name table holds for the requested key, if anything usable
RequestedSort(options, config) ==
  LET table == Prop(config, "sortNames")
      key == Prop(options, "sort")
  IN IF key.t = "str" /\ table.t = "obj" /\ key.s \in Keys(table)
        /\ Prop(table, key.s) # Undefined
     THEN Prop(table, key.s)
     ELSE RelevanceDesc

\* C16: with an id list in the options the returned sort is the empty object,
\* whatever sort key is requested and whatever the table holds; without one
\* the returned sort is the table's entry for the key or relevance descending,
\* never the forced empty value.
C16_IdsForceEmptySort ==
  BuilderReturned =>
    LET sort == Prop(esResult.value, "sort")
    IN IF HasIdList(esCall.options)
       THEN sort = Obj(<<>>)
       ELSE sort = RequestedSort(esCall.options, esCall.config) /\ sort # Obj(<<>>)

\* the builder returned the empty sort for an id list although a mapped sort
\* key was requested
C16_Witness ==
  /\ BuilderReturned
  /\ esCall.options = Obj(<<Entry("ids", Arr(<<Str("7"), Str("9")>>)),
                            Entry("sort", Str("date_desc"))>>)
  /\ esCall.config = MergedConfig(Obj(<<>>))
  /\ Prop(esResult.value, "sort") = Obj(<<>>)

-----------------------------------------------------------------------------
(* C15: the registry of ESService instances *)

Min(S) == CHOOSE x \in S : \A y \in S : x <= y

\* the services among the first n constructed that carry the index name
ConstructedFor(name, n) == {i \in 1..n : services[i].index = name}

LookedUp == esCall # None /\ esCall.op = "getInstance"

\* C15: the registry holds, for every index name, the first service ever
\* constructed with it (so no later construction replaces an entry and none is
\* removed) and nothing for a name never constructed; getInstance returns
\* that first service and throws for a name without one.
C15_RegistryKeepsFirst ==
  /\ \A name \in IndexNames :
       LET built == ConstructedFor(name, Len(services))
       IN IF built = {} THEN name \notin DOMAIN instances
          ELSE name \in DOMAIN instances /\ instances[name] = Min(built)
  /\ LookedUp =>
       LET built == ConstructedFor(esCall.index, esCall.constructed)
       IN IF built = {} THEN esResult.settled = "threw"
          ELSE esResult = [settled |-> "returned", value |-> Min(built)]

\* getInstance returned the first of two services constructed for one index
C15_Witness ==
  /\ LookedUp
  /\ Len(services) = 2
  /\ services[1].index = esCall.index
  /\ services[2].index = esCall.index
  /\ services[1] # services[2]
  /\ esResult = [settled |-> "returned", value |-> 1]

-----------------------------------------------------------------------------
(* C17: the merged search configuration *)

Usable(v) == v # Undefined /\ v # Null

GivenOr(v, default) == IF v.t \in {"undefined", "null"} THEN default ELSE v

\* C17 as stated: the merged field list is the built-in fields followed by the
\* caller's, and the merged table maps every built-in sort name to a usable
\* sort (the caller's entry where there is one) and holds the caller's new
\* names.
C17_AppendOnlyUnion ==
  [][\A p \in ServiceProps :
       NewESService(p) =>
         LET merged == services'[Len(services')].config
             table == Prop(merged, "sortNames")
             given == GivenOr(Prop(p.config, "sortNames"), Obj(<<>>))
             fields == GivenOr(Prop(p.config, "source"), Arr(<<>>))
         IN /\ Prop(merged, "source") = Arr(source.q \o fields.q)
            /\ \A name \in Keys(sortNames) :
                 /\ name \in Keys(table)
                 /\ Usable(Prop(table, name))
                 /\ Prop(table, name) = IF name \in Keys(given) THEN Prop(given, name)
                                        ELSE Prop(sortNames, name)
            /\ \A name \in Keys(given) : Prop(table, name) = Prop(given, name)]_vars

-----------------------------------------------------------------------------
(* C18: the envelope post settles with *)

PostSettled ==
  esPc = "done" /\ esCall # None /\ esCall.op \in {"raw", "msearch"}

\* what post resolves with once the request has been handed to fetch
Envelope ==
  IF esCall.error # None THEN [ok |-> FALSE, data |-> esCall.error]
  ELSE [ok |-> esCall.response.ok, data |-> esCall.response.wire.v]

\* C18 as stated: post, raw and msearch never reject; they resolve to
\* {ok: false, data: e} when the network call or the decoding raised e and to
\* {ok: response.ok, data: decoded JSON} otherwise.
C18_PostNeverRejects ==
  PostSettled =>
    /\ esResult.settled = "resolved"
    /\ esCall.request # None
    /\ esResult.value = Envelope

\* C18 (amended): once the request is handed to fetch, post, raw and msearch
\* never reject: they resolve to {ok: false, data: e} when the network call or
\* the decoding raised e and to {ok: response.ok, data: decoded JSON}
\* otherwise. They fail (post and raw reject, msearch throws) exactly when
\* building the request throws: btoa cannot encode the credentials or
\* JSON.stringify cannot serialize the body.
C18_TransportFailuresResolve ==
  PostSettled =>
    IF esCall.request = None
    THEN /\ esResult.settled \in {"rejected", "threw"}
         /\ esResult.value \in {InvalidCharacterError, StringifyTypeError}
         /\ \/ ~Btoa(services[esCall.self].username \o ":"
                        \o services[esCall.self].password).ok
            \/ ~JSONstringify(esCall.data).ok
    ELSE /\ esResult.settled = "resolved"
         /\ esResult.value = Envelope

\* raw resolved with {ok: false, data: e} after the decoding of a response
\* raised e
C18_Witness ==
  /\ PostSettled
  /\ esCall.op = "raw"
  /\ esCall.response # None
  /\ esCall.error = JsonSyntaxError
  /\ esResult = [settled |-> "resolved",
                 value |-> [ok |-> FALSE, data |-> JsonSyntaxError]]

-----------------------------------------------------------------------------
(* C19, C20: copying and sharing in a browser *)

UiSettled == uiPc = "done" /\ uiCall # None

Logged(e, text) == \E i \in 1..Len(uiLog) : uiLog[i] = Event(e, text)

CallbackRan == \E i \in 1..Len(uiLog) : uiLog[i].e = "cb"

\* the Clipboard API wrote the text: writeText was called and fulfilled
WrittenThroughClipboardApi ==
  Logged("writeText", uiCall.text) /\ Logged("copied", uiCall.text)

\* C19: in a browser, a handleCopy call that ends without the text written
\* through the Clipboard API has run handleCopyZombies for the same text.
C19_FallbackWheneverNotWritten ==
  (UiSettled /\ uiCall.op = "handleCopy" /\ uiCall.env.browser
     /\ ~WrittenThroughClipboardApi)
    => Logged("handleCopyZombies", uiCall.text)

\* C20: in a browser, a handleShare call with a callback that ends with the
\* content shared or the URL copied has run the callback.
C20_CallbackRunsAfterShareOrCopy ==
  (UiSettled /\ uiCall.op = "handleShare" /\ uiCall.env.browser /\ uiCall.cb
     /\ (Logged("shared", uiCall.text) \/ Logged("copied", uiCall.text)))
    => CallbackRan

-----------------------------------------------------------------------------
(* C21: the redirect path *)

\* the response is an opaque redirect or carries a 3xx status
RedirectAnswered ==
  /\ pc \notin {"new", "threw", "idle"}
  /\ response # None
  /\ (response.type = "opaqueredirect" \/ response.status \in 300..399)

\* C21: once fetch has answered with a redirect response the call is settled
\* with the redirect envelope built from that response alone; its body is
\* never awaited or parsed, so neither error detection nor field filtering
\* sees it, whatever the body holds.
C21_RedirectSkipsParsing ==
  RedirectAnswered =>
    /\ pc = "done"
    /\ parsed = None
    /\ outcome = Resolved([body |-> Obj(<<>>), error |-> Null,
                           redirect |-> RedirectEnvelope(response).redirect])

\* a 302 whose body is error-marked, though declared as JSON, settled as a
\* redirect
C21_Witness ==
  /\ RedirectAnswered
  /\ response.status = 302
  /\ response.wire = Json(ErrorMarked)
  /\ IsRedirectOutcome
  /\ outcome.value.redirect = [url |-> "/login", status |-> 302]

-----------------------------------------------------------------------------
(* C22: the filter list of the built query *)

Supplied(options, key) == key \in Keys(options)

\* the filters a call is to append: the id-membership filter if ids were
\* supplied, then the extra clause, or the extra clauses one by one
AppendedFilters(options) ==
  (IF Supplied(options, "ids")
   THEN <<Obj(<<Entry("terms", Obj(<<Entry("id", Prop(options, "ids"))>>))>>)>>
   ELSE <<>>)
    \o (IF ~Supplied(options, "must") THEN <<>>
        ELSE IF Prop(options, "must").t = "arr" THEN Prop(options, "must").q
        ELSE <<Prop(options, "must")>>)

\* query.bool.must of the object the builder returned
BuiltMust == Prop(Prop(Prop(esResult.value, "query"), "bool"), "must")

\* C22: query.bool.must is the caller's list, which after the call holds its
\* former elements, then the id-membership filter if ids were supplied, then
\* the extra filter(s) in their order; the list keeps them, so a further call
\* on the same list starts from them.
C22_MustExtendedInPlace ==
  BuilderReturned =>
    /\ baseMust = esCall.list \o AppendedFilters(esCall.options)
    /\ BuiltMust = Arr(baseMust)

\* a call on a list that already holds the id filter of an earlier call
\* appended a second id filter and a list of two clauses after it
C22_Witness ==
  /\ BuilderReturned
  /\ esCall.list = <<Obj(<<Entry("terms", Obj(<<Entry("id", Arr(<<>>))>>))>>)>>
  /\ esCall.options = Obj(<<Entry("ids", Arr(<<Str("7"), Str("9")>>)),
                            Entry("must", Arr(<<Clause("color", "red"),
                                                Clause("brand", "acme")>>))>>)
  /\ Len(baseMust) = 4
  /\ BuiltMust = Arr(baseMust)

-----------------------------------------------------------------------------
(* C23: sort, size and offset of the built query *)

\* C23: without an id list the returned sort is the table's entry for the
\* requested key when the table maps the key to a value, and relevance
\* descending otherwise;
\* size is the caller's size when given and 12 otherwise; from is the
\* caller's from.
C23_SortSizeFrom ==
  BuilderReturned =>
    LET options == esCall.options
        table == Prop(esCall.config, "sortNames")
        key == Prop(options, "sort")
    IN /\ ~Supplied(options, "ids") =>
            Prop(esResult.value, "sort") =
              IF Supplied(options, "sort") /\ table.t = "obj" /\ key.s \in Keys(table)
                 /\ Prop(table, key.s) # Undefined
              THEN Prop(table, key.s)
              ELSE RelevanceDesc
       /\ Prop(esResult.value, "size") =
            IF Supplied(options, "size") THEN Prop(options, "size") ELSE Num(12)
       /\ Prop(esResult.value, "from") = Prop(options, "from")

-----------------------------------------------------------------------------
(* C24: the hits rawHits and search resolve with *)

HitsSettled ==
  /\ esPc = "done"
  /\ esCall # None
  /\ esCall.op \in {"rawHits", "search"}
  /\ esCall.request # None

\* the raw hits of the response, when post resolved with ok and the decoded
\* body carries a list of hits
RawHitsOf(resp) == Prop(Prop(resp.wire.v, "hits"), "hits")

CarriesHits ==
  /\ esCall.error = None
  /\ esCall.response.ok
  /\ RawHitsOf(esCall.response).t = "arr"

PostFailed == esCall.error # None \/ ~esCall.response.ok

\* the record holds the hit's identifier under id and every source field
HoldsHit(record, hit) ==
  /\ Prop(record, "id") = Prop(hit, "_id")
  /\ \A k \in Keys(Prop(hit, "_source")) :
       k \in Keys(record) /\ Prop(record, k) = Prop(Prop(hit, "_source"), k)

\* C24: rawHits and search resolve with the empty list when post resolved with
\* ok false; when the response carries hits they resolve with one record per
\* hit, in hit order, each holding the hit's identifier under id and all of
\* the hit's source fields.
C24_HitsConverted ==
  HitsSettled =>
    /\ PostFailed => esResult = [settled |-> "resolved", value |-> Arr(<<>>)]
    /\ CarriesHits =>
         LET hits == RawHitsOf(esCall.response).q
         IN /\ esResult.settled = "resolved"
            /\ esResult.value.t = "arr"
            /\ Len(esResult.value.q) = Len(hits)
            /\ \A i \in 1..Len(hits) : HoldsHit(esResult.value.q[i], hits[i])

-----------------------------------------------------------------------------
(* C25: consecutive searches *)

SearchCalled == esCall # None /\ esCall.op = "search"

GivenOptions == IF esCall.args = Undefined THEN Obj(<<>>) ELSE esCall.args

\* the query a search posts holds the filters of its own options only, and
\* the instance's field list followed by its own extra sources only
SearchQueryIsItsOwn ==
  SearchCalled =>
    LET config == services[esCall.self].config
        extra == Prop(GivenOptions, "additionalSources")
    IN /\ Prop(Prop(Prop(esCall.data, "query"), "bool"), "must")
            = Arr(AppendedFilters(GivenOptions))
       /\ Prop(esCall.data, "_source")
            = IF Supplied(GivenOptions, "additionalSources")
              THEN Arr(Prop(config, "source").q \o extra.q)
              ELSE Prop(config, "source")
       /\ esCall.data = productQueryBuilder(<<>>, GivenOptions, config)

\* C25: every step leaves the services constructed so far, their merged
\* configuration included, as they were, and the query of every search is
\* built from that search's options and the instance's configuration alone,
\* whatever searches came before.
C25_SearchesIndependent ==
  [][/\ \A i \in 1..Len(services) : services'[i] = services[i]
     /\ SearchQueryIsItsOwn']_vars

\* a search without options follows, on the same instance, a search that
\* gave a filter and an extra source, and posts a query without either
C25_Witness ==
  /\ SearchCalled
  /\ esCall.args = Undefined
  /\ esCall.previous = [self |-> esCall.self,
                        args |-> Obj(<<Entry("must", Clause("brand", "acme")),
                                       Entry("additionalSources", Arr(<<Str("brand")>>))>>)]
  /\ Prop(Prop(Prop(esCall.data, "query"), "bool"), "must") = Arr(<<>>)
  /\ Prop(esCall.data, "_source") = Prop(services[esCall.self].config, "source")

====
